---- MODULE Spec2Model ----
(***************************************************************************)
(* A model of rust-rdkafka's client core (src/src/client.rs) and message   *)
(* views (src/src/message.rs).                                             *)
(*                                                                         *)
(* Nine state machines share the module:                                   *)
(*   Spec       - Client construction and destruction, and the native      *)
(*                log/stats/error trampolines the engine runs on its own   *)
(*                threads;                                                 *)
(*   SpecMsg    - the life of native messages wrapped by BorrowedMessage   *)
(*                (from_consumer, from_dr_callback, detach, Drop);         *)
(*   SpecDetach - one native message of arbitrary content, its accessors   *)
(*                and detach;                                              *)
(*   SpecTs     - Timestamp and its conversions;                           *)
(*   SpecNew    - Client::new statement by statement, with the engine's    *)
(*                callbacks and Client drops around it;                    *)
(*   SpecFetch  - fetch_metadata, fetch_watermarks and fetch_group_list    *)
(*                on a built Client, with the engine calls they make;      *)
(*   SpecTram   - the trampolines with their arguments, the Context calls  *)
(*                they make and what they return;                          *)
(*   SpecWrap   - NativeClient values made through the public from_ptr;    *)
(*   SpecPanic  - trampolines whose Context method panics.                 *)
(***************************************************************************)
EXTENDS Integers, Sequences, FiniteSets, TLC

\* ------------------------------------------------------------------ bounds

\* Number of Client::new calls made in a run.
MaxConstructs == 2

\* Number of engine threads that can be inside a trampoline at once.
MaxThreads == 2

\* Number of engine threads that run trampolines where the steps of
\* Client::new, or the trampolines' arguments and effects, are tracked.
MaxTramThreads == 1

VARIABLES
    clients,        \* Client values, by construction attempt
    handles,        \* native client handles (rd_kafka_t), by address
    ctxs,           \* heap allocations of Box<C>, by address
    cbs,            \* per engine thread: the trampoline invocation it is in
    observedFreed   \* some trampoline dispatched to a Context that was not allocated

clientVars == <<clients, handles, ctxs, cbs, observedFreed>>

VARIABLES
    tsIn,           \* the Timestamp at hand
    tsOut,          \* the result of to_millis on it, once computed
    tsPc,           \* "input" before to_millis is applied, "done" after
    tsArg           \* the i64 that tsIn was converted from, if it was

tsVars == <<tsIn, tsOut, tsPc, tsArg>>

VARIABLES
    consumers,      \* per consumer: "alive" or "gone"
    msgs,           \* native messages (rd_kafka_message_t), by address
    views,          \* BorrowedMessage values, by the message they were made for
    owned           \* per message: the OwnedMessage detached from its view, if any

msgVars == <<consumers, msgs, views, owned>>

VARIABLES
    newPc,          \* the step of NewSteps the Client::new in progress runs next; 0: none
    conf,           \* the configuration that Client::new is filling in
    errstr,         \* the errstr buffer of the Client::new in progress
    registered,     \* per native handle: the callbacks of the configuration it was made from
    newDiag,        \* per attempt: the diagnostic the engine produced for it
    newResult       \* per attempt: what Client::new returned

newVars == <<newPc, conf, errstr, registered, newDiag, newResult>>

VARIABLES
    topics,         \* native topic handles (rd_kafka_topic_t), by address
    nullDestroys,   \* number of rd_kafka_topic_destroy calls made on a null pointer
    structs,        \* number of result structures the engine has handed out
    fetchLog,       \* the engine calls of the last query operation, in order
    fetchIn,        \* the last query operation and its arguments
    fetchOut,       \* what the last query operation returned
    fetchN          \* number of query operations made

fetchVars == <<topics, nullDestroys, structs, fetchLog, fetchIn, fetchOut, fetchN>>

VARIABLES
    tram,           \* per engine thread: the arguments and effects of its trampoline invocation
    badStats,       \* some statistics payload that failed to parse has been handled
    aborted         \* the process was aborted by a panic inside a trampoline

tramVars == <<tram, badStats, aborted>>

VARIABLES
    wrappers,       \* NativeClient values made by from_ptr, by creation order
    known           \* the raw client pointers the application has obtained

wrapVars == <<wrappers, known>>

vars == <<clientVars, tsVars, msgVars, newVars, fetchVars, tramVars, wrapVars>>

\* What the operations of one part leave alone: the other parts.
ClientFrame == UNCHANGED <<tsVars, msgVars, newVars, fetchVars, tramVars, wrapVars>>
TsFrame == UNCHANGED <<clientVars, msgVars, newVars, fetchVars, tramVars, wrapVars>>
MsgFrame == UNCHANGED <<clientVars, tsVars, newVars, fetchVars, tramVars, wrapVars>>
NewFrame == UNCHANGED <<tsVars, msgVars, fetchVars, tramVars, wrapVars>>
FetchFrame == UNCHANGED <<clientVars, tsVars, msgVars, newVars, tramVars, wrapVars>>
TramFrame == UNCHANGED <<tsVars, msgVars, newVars, fetchVars, wrapVars>>
WrapFrame == UNCHANGED <<tsVars, msgVars, newVars, fetchVars, tramVars>>

Attempts == 1..MaxConstructs
Threads == 1..MaxThreads
TramThreads == 1..MaxTramThreads
NullPtr == 0

\* ------------------------------------------------------------ client core

NoClient == [st |-> "none", native |-> NullPtr, context |-> NullPtr, k |-> 0]
NoHandle == [st |-> "none", opaque |-> NullPtr, destroys |-> 0]
NoCtx == [st |-> "none", frees |-> 0, aliases |-> 0, returned |-> FALSE, freedBy |-> "nobody"]
IdleCb == [st |-> "idle", h |-> NullPtr, kind |-> "log", ctx |-> NullPtr]

\* Box::new(context): a fresh allocation owned by the box.
BoxNew(cs, c) == [cs EXCEPT ![c].st = "boxed"]

BoxDrop_leaks(cs, c, who) == cs

\* Dropping a Box<C> releases its allocation.
BoxDrop(cs, c, who) ==
    [cs EXCEPT ![c].st = "freed", ![c].frees = @ + 1, ![c].freedBy = who]

\* Box::from_raw(opaque as *mut C): a second box over the same allocation.
BoxFromRaw(cs, c) == [cs EXCEPT ![c].aliases = @ + 1]

MemForget_dropsBox(cs, c) ==
    [cs EXCEPT ![c].aliases = @ - 1, ![c].st = "freed", ![c].frees = @ + 1,
               ![c].freedBy = "trampoline"]

\* mem::forget(context): the trampoline's box goes away without releasing.
MemForget(cs, c) == [cs EXCEPT ![c].aliases = @ - 1]

NativeClientDrop_leaks(hs, h) == [hs EXCEPT ![h].st = "destroying"]

\* impl Drop for NativeClient: rd_kafka_destroy(self.ptr) is entered.
NativeClientDrop(hs, h) ==
    [hs EXCEPT ![h].st = "destroying", ![h].destroys = @ + 1]

DropOrder_contextFirst == <<"context", "native">>

\* struct Client { native, context }: fields are dropped in declaration order.
DropOrder == <<"native", "context">>

\* The first free address of each kind.
FreshAttempt == CHOOSE i \in Attempts : clients[i].st = "none" /\
                    \A j \in Attempts : j < i => clients[j].st # "none"
FreshHandle == CHOOSE h \in Attempts : handles[h].st = "none" /\
                    \A j \in Attempts : j < h => handles[j].st # "none"

\* Client::new when rd_kafka_new returns a handle.
ClientNewOk ==
    /\ \E i \in Attempts : clients[i].st = "none"
    /\ LET i == FreshAttempt
           h == FreshHandle
       IN  /\ ctxs' = BoxNew(ctxs, i)
           /\ handles' = [handles EXCEPT ![h] = [st |-> "live", opaque |-> i, destroys |-> 0]]
           /\ clients' = [clients EXCEPT ![i] =
                            [st |-> "alive", native |-> h, context |-> i, k |-> 0]]
    /\ UNCHANGED <<cbs, observedFreed>>
    /\ ClientFrame

\* Client::new when rd_kafka_new returns null: Err(ClientCreation), and the
\* boxed context goes out of scope.
ClientNewFail ==
    /\ \E i \in Attempts : clients[i].st = "none"
    /\ LET i == FreshAttempt
       IN  /\ ctxs' = BoxDrop(BoxNew(ctxs, i), i, "new")
           /\ clients' = [clients EXCEPT ![i] =
                            [st |-> "failed", native |-> NullPtr, context |-> NullPtr, k |-> 0]]
    /\ UNCHANGED <<handles, cbs, observedFreed>>
    /\ ClientFrame

\* The Client goes out of scope: its drop glue starts with the first field.
ClientDrop(i) ==
    /\ clients[i].st = "alive"
    /\ clients' = [clients EXCEPT ![i].st = "dropping", ![i].k = 1]
    /\ UNCHANGED <<handles, ctxs, cbs, observedFreed>>
    /\ ClientFrame

FieldDone(i) ==
    [clients EXCEPT ![i].k = @ + 1,
                    ![i].st = IF clients[i].k = Len(DropOrder) THEN "gone" ELSE "dropping"]

\* Drop of the `native` field: rd_kafka_destroy is called.
DropNativeBegin(i) ==
    /\ clients[i].st = "dropping"
    /\ DropOrder[clients[i].k] = "native"
    /\ handles[clients[i].native].st = "live"
    /\ handles' = NativeClientDrop(handles, clients[i].native)
    /\ UNCHANGED <<clients, ctxs, cbs, observedFreed>>
    /\ ClientFrame

\* rd_kafka_destroy returns: the engine has drained the callbacks in flight.
DropNativeEnd(i) ==
    /\ clients[i].st = "dropping"
    /\ DropOrder[clients[i].k] = "native"
    /\ handles[clients[i].native].st = "destroying"
    /\ \A t \in Threads : ~(cbs[t].st = "running" /\ cbs[t].h = clients[i].native)
    /\ handles' = [handles EXCEPT ![clients[i].native].st = "destroyed"]
    /\ clients' = FieldDone(i)
    /\ UNCHANGED <<ctxs, cbs, observedFreed>>
    /\ ClientFrame

\* Drop of the `context` field: the Box<C> is released.
DropContext(i) ==
    /\ clients[i].st = "dropping"
    /\ DropOrder[clients[i].k] = "context"
    /\ ctxs' = BoxDrop(ctxs, clients[i].context, "client")
    /\ clients' = FieldDone(i)
    /\ UNCHANGED <<handles, cbs, observedFreed>>
    /\ ClientFrame

RdKafkaOpaque_shared(hs, h) == hs[1].opaque

\* rd_kafka_opaque(client), and the opaque argument the engine passes to the
\* stats and error callbacks: the pointer set on the configuration that
\* handle h was created from.
RdKafkaOpaque(hs, h) == hs[h].opaque

\* The engine invokes a trampoline for handle h on thread t. The engine only
\* does so while the handle exists (until rd_kafka_destroy returns).
\* native_log_cb recovers the Context with rd_kafka_opaque(client); the
\* stats and error trampolines get it as their opaque argument. Both are the
\* pointer Client::new stored with rd_kafka_conf_set_opaque.
CbEnterCore(t, h, kind) ==
    /\ cbs[t].st = "idle"
    /\ handles[h].st \in {"live", "destroying"}
    /\ LET c == RdKafkaOpaque(handles, h)
       IN  /\ ctxs' = BoxFromRaw(ctxs, c)
           /\ cbs' = [cbs EXCEPT ![t] = [st |-> "running", h |-> h, kind |-> kind, ctx |-> c]]
           /\ observedFreed' = (observedFreed \/ ctxs[c].st # "boxed")
    /\ UNCHANGED <<clients, handles>>

CbEnter(t, h, kind) == CbEnterCore(t, h, kind) /\ ClientFrame

\* The Context method returned: the trampoline forgets its box and returns.
CbReturnCore(t, kind) ==
    /\ cbs[t].st = "running"
    /\ cbs[t].kind = kind
    /\ ctxs' = [MemForget(ctxs, cbs[t].ctx) EXCEPT ![cbs[t].ctx].returned = TRUE]
    /\ observedFreed' = (observedFreed \/ ctxs[cbs[t].ctx].st # "boxed")
    /\ cbs' = [cbs EXCEPT ![t] = IdleCb]
    /\ UNCHANGED <<clients, handles>>

CbReturn(t, kind) == CbReturnCore(t, kind) /\ ClientFrame

native_log_cb == \E t \in Threads, h \in Attempts : CbEnter(t, h, "log")
native_log_cb_return == \E t \in Threads : CbReturn(t, "log")
native_stats_cb == \E t \in Threads, h \in Attempts : CbEnter(t, h, "stats")
native_stats_cb_return == \E t \in Threads : CbReturn(t, "stats")
native_error_cb == \E t \in Threads, h \in Attempts : CbEnter(t, h, "error")
native_error_cb_return == \E t \in Threads : CbReturn(t, "error")

ClientInit ==
    /\ clients = [i \in Attempts |-> NoClient]
    /\ handles = [h \in Attempts |-> NoHandle]
    /\ ctxs = [c \in Attempts |-> NoCtx]
    /\ cbs = [t \in Threads |-> IdleCb]
    /\ observedFreed = FALSE

ClientNext ==
    \/ ClientNewOk
    \/ ClientNewFail
    \/ \E i \in Attempts : ClientDrop(i)
    \/ \E i \in Attempts : DropNativeBegin(i)
    \/ \E i \in Attempts : DropNativeEnd(i)
    \/ \E i \in Attempts : DropContext(i)
    \/ native_log_cb
    \/ native_log_cb_return
    \/ native_stats_cb
    \/ native_stats_cb_return
    \/ native_error_cb
    \/ native_error_cb_return

\* ---------------------------------------------------------------- options

\* Option<T>: None, or Some(x).
None == <<>>
Some(x) == <<x>>

\* -------------------------------------------------------------- timestamps

\* Largest magnitude of a millisecond value tried.
MaxMillis == 30

Millis == (0 - MaxMillis)..MaxMillis

\* enum Timestamp { NotAvailable, CreateTime(i64), LogAppendTime(i64) }
NotAvailable == [tag |-> "NotAvailable", ms |-> 0]
CreateTime(t) == [tag |-> "CreateTime", ms |-> t]
LogAppendTime(t) == [tag |-> "LogAppendTime", ms |-> t]

Timestamps ==
    {NotAvailable} \cup {CreateTime(t) : t \in Millis} \cup {LogAppendTime(t) : t \in Millis}

ToMillis_keepsSentinel(ts) ==
    IF ts.tag = "NotAvailable" THEN None ELSE Some(ts.ms)

\* Timestamp::to_millis
ToMillis(ts) ==
    IF \/ ts.tag = "NotAvailable"
       \/ (ts.tag = "CreateTime" /\ ts.ms = -1)
       \/ (ts.tag = "LogAppendTime" /\ ts.ms = -1)
    THEN None
    ELSE Some(ts.ms)

FromI64_logAppend(t) == LogAppendTime(t)

\* impl From<i64> for Timestamp
FromI64(t) == CreateTime(t)

TsInit ==
    /\ tsIn \in Timestamps
    /\ tsOut = None
    /\ tsPc = "input"
    /\ tsArg = None

\* A single initial state for the specifications that are not about Timestamp.
TsIdle ==
    /\ tsIn = NotAvailable
    /\ tsOut = None
    /\ tsPc = "input"
    /\ tsArg = None

TsToMillis ==
    /\ tsPc = "input"
    /\ tsOut' = ToMillis(tsIn)
    /\ tsPc' = "done"
    /\ UNCHANGED <<tsIn, tsArg>>
    /\ TsFrame

TsFrom ==
    /\ tsPc = "done"
    /\ \E t \in Millis :
        /\ tsIn' = FromI64(t)
        /\ tsArg' = Some(t)
    /\ tsOut' = None
    /\ tsPc' = "input"
    /\ TsFrame

TsNext == TsToMillis \/ TsFrom

\* ---------------------------------------------------------------- messages

\* Number of native messages the engine hands over in a run.
MaxMsgs == 2

\* Number of consumers.
MaxConsumers == 1

MsgIds == 1..MaxMsgs
Consumers == 1..MaxConsumers

\* rd_kafka_resp_err_t values a message can carry.
ErrCodes == {"NO_ERROR", "PARTITION_EOF", "TIMED_OUT"}

\* IsError::is_error for rd_kafka_resp_err_t: anything but NO_ERROR.
IsError(e) == e # "NO_ERROR"

\* A pointer/length pair of rd_kafka_message_t: the memory behind the pointer
\* may extend beyond the length.
NullField == [null |-> TRUE, mem |-> <<>>, len |-> 0]
KeyFields == {NullField} \cup {[null |-> FALSE, mem |-> <<7, 9>>, len |-> n] : n \in {0, 1}}
PayloadFields == {NullField} \cup {[null |-> FALSE, mem |-> <<3, 4>>, len |-> n] : n \in {0, 2}}
Partitions == {0, 3}
Offsets == {5, 6}
Topics == {"orders", "audit"}
TsTypes == {"NOT_AVAILABLE", "CREATE_TIME", "LOG_APPEND_TIME"}
TsVals == {-1, 0, 8}

\* Every rd_kafka_message_t tried.
NativeMessages ==
    [err : ErrCodes, partition : Partitions, offset : Offsets, key : KeyFields,
     payload : PayloadFields, topic : Topics, tsType : TsTypes, tsVal : TsVals]

\* What a released buffer holds.
Poison ==
    [err |-> "NO_ERROR", partition |-> -1, offset |-> -1, key |-> NullField,
     payload |-> NullField, topic |-> "", tsType |-> "NOT_AVAILABLE", tsVal |-> -1]

\* KafkaError values, and the results of the constructors.
KafkaError(kind, partition, code) == [kind |-> kind, partition |-> partition, code |-> code]
PartitionEOF(p) == KafkaError("PartitionEOF", p, "")
MessageConsumption(e) == KafkaError("MessageConsumption", 0, e)
MessageProduction(e) == KafkaError("MessageProduction", 0, e)
NoKafkaError == KafkaError("", 0, "")
NoResult == [tag |-> "none", error |-> NoKafkaError]
Ok == [tag |-> "Ok", error |-> NoKafkaError]
Err(e) == [tag |-> "Err", error |-> e]

NoMsg ==
    [st |-> "none", prov |-> "none", from |-> 0, sent |-> Poison, native |-> Poison,
     destroys |-> 0, engineFrees |-> 0, cbActive |-> FALSE, result |-> NoResult]
NoOwner == 0
NoView == [st |-> "none", ptr |-> NullPtr, owner |-> NoOwner]
NoOwned == None

Key_emptyIsNone(n) ==
    IF n.key.null \/ n.key.len = 0 THEN None ELSE Some(SubSeq(n.key.mem, 1, n.key.len))

\* Message::key for BorrowedMessage
Key(n) == IF n.key.null THEN None ELSE Some(SubSeq(n.key.mem, 1, n.key.len))

\* Message::payload for BorrowedMessage
Payload(n) ==
    IF n.payload.null THEN None ELSE Some(SubSeq(n.payload.mem, 1, n.payload.len))

\* Message::topic for BorrowedMessage
Topic(n) == n.topic

\* Message::partition for BorrowedMessage
Partition(n) == n.partition

\* Message::offset for BorrowedMessage
Offset(n) == n.offset

MessageTimestamp_noSentinel(n) ==
    CASE n.tsType = "NOT_AVAILABLE" -> NotAvailable
      [] n.tsType = "CREATE_TIME" -> CreateTime(n.tsVal)
      [] n.tsType = "LOG_APPEND_TIME" -> LogAppendTime(n.tsVal)

\* Message::timestamp for BorrowedMessage
MessageTimestamp(n) ==
    IF n.tsVal = -1 THEN NotAvailable
    ELSE CASE n.tsType = "NOT_AVAILABLE" -> NotAvailable
           [] n.tsType = "CREATE_TIME" -> CreateTime(n.tsVal)
           [] n.tsType = "LOG_APPEND_TIME" -> LogAppendTime(n.tsVal)

DetachOf_swapsKeyPayload(n) ==
    [key |-> Payload(n), payload |-> Key(n), topic |-> Topic(n),
     timestamp |-> MessageTimestamp(n), partition |-> Partition(n), offset |-> Offset(n)]

\* BorrowedMessage::detach: the OwnedMessage built from the accessors.
DetachOf(n) ==
    [key |-> Key(n), payload |-> Payload(n), topic |-> Topic(n),
     timestamp |-> MessageTimestamp(n), partition |-> Partition(n), offset |-> Offset(n)]

\* impl Message for OwnedMessage
OwnedKey(o) == o.key
OwnedPayload(o) == o.payload
OwnedTopic(o) == o.topic
OwnedPartition(o) == o.partition
OwnedOffset(o) == o.offset
OwnedTimestamp(o) == o.timestamp

\* rd_kafka_message_destroy(p), called by this crate.
MessageDestroy(ms, p) ==
    [ms EXCEPT ![p].destroys = @ + 1, ![p].native = Poison, ![p].st = "released"]

\* The message the engine hands over next.
FreshMsg == CHOOSE p \in MsgIds : msgs[p].st = "none" /\
                \A q \in MsgIds : q < p => msgs[q].st # "none"

Arrived(n, prov, c) ==
    [NoMsg EXCEPT !.st = "live", !.prov = prov, !.from = c, !.sent = n, !.native = n,
                  !.cbActive = (prov = "dr")]

\* from_consumer, error branch: the message structure is freed.
FromConsumerError(ms, p) == MessageDestroy(ms, p)

FromConsumerOwner_unbound(c) == NoOwner

\* from_consumer: the view's lifetime 'a is that of the borrow of _consumer.
FromConsumerOwner(c) == c

FromConsumerErr_noEof(n) == MessageConsumption(n.err)

\* from_consumer: the KafkaError of the error branch.
FromConsumerErr(n) ==
    IF n.err = "PARTITION_EOF" THEN PartitionEOF(n.partition) ELSE MessageConsumption(n.err)

\* BorrowedMessage::from_consumer(ptr, _consumer) for the message at p, which
\* the engine has just delivered with content n: what it does to the message,
\* and the view it returns if any.
FromConsumerMsgs(ms, p, c, n) ==
    LET arrived == [ms EXCEPT ![p] = Arrived(n, "consumer", c)]
    IN  IF IsError(n.err)
        THEN [FromConsumerError(arrived, p) EXCEPT ![p].result = Err(FromConsumerErr(n))]
        ELSE [arrived EXCEPT ![p].result = Ok]

FromConsumerViews(vs, p, c, n) ==
    IF IsError(n.err)
    THEN vs
    ELSE [vs EXCEPT ![p] = [st |-> "alive", ptr |-> p, owner |-> FromConsumerOwner(c)]]

FromConsumer(p, c, n) ==
    /\ msgs' = FromConsumerMsgs(msgs, p, c, n)
    /\ views' = FromConsumerViews(views, p, c, n)

FromDrCallbackResult_dropsError(n) == Ok

\* from_dr_callback: the tag of the DeliveryResult.
FromDrCallbackResult(n) ==
    IF IsError(n.err) THEN Err(MessageProduction(n.err)) ELSE Ok

\* BorrowedMessage::from_dr_callback(ptr, _owner) for the message at p, inside
\* the delivery callback invocation the engine has just started for it.
FromDrCallbackMsgs(ms, p, n) ==
    [ms EXCEPT ![p] = [Arrived(n, "dr", 0) EXCEPT !.result = FromDrCallbackResult(n)]]

FromDrCallbackViews(vs, p, n) ==
    [vs EXCEPT ![p] = [st |-> "alive", ptr |-> p, owner |-> p]]

FromDrCallback(p, n) ==
    /\ msgs' = FromDrCallbackMsgs(msgs, p, n)
    /\ views' = FromDrCallbackViews(views, p, n)

\* The contents tried where only the life of the buffer matters.
PolledMessages ==
    {n \in NativeMessages :
        /\ n.offset = 5 /\ n.topic = "orders" /\ n.tsType = "CREATE_TIME" /\ n.tsVal = 8
        /\ n.key = NullField /\ ~n.payload.null /\ n.payload.len = 2
        /\ (n.partition = 3 => n.err = "PARTITION_EOF")}

\* A consumer's poll: the engine returns a message and the consumer wraps it.
ConsumerPoll ==
    /\ \E p \in MsgIds : msgs[p].st = "none"
    /\ \E c \in Consumers, n \in PolledMessages :
        /\ consumers[c] = "alive"
        /\ FromConsumer(FreshMsg, c, n)
    /\ UNCHANGED <<consumers, owned>>
    /\ MsgFrame

\* The engine invokes a producer's delivery callback with a delivery report.
DeliveryCallback ==
    /\ \E p \in MsgIds : msgs[p].st = "none"
    /\ \E n \in PolledMessages : FromDrCallback(FreshMsg, n)
    /\ UNCHANGED <<consumers, owned>>
    /\ MsgFrame

\* BorrowedMessage::detach on the view v.
Detach(v) ==
    /\ views[v].st = "alive"
    /\ owned' = [owned EXCEPT ![v] = Some(DetachOf(msgs[views[v].ptr].native))]
    /\ UNCHANGED <<consumers, msgs, views>>
    /\ MsgFrame

DropView_noDestroy(v) ==
    /\ views[v].st = "alive"
    /\ views' = [views EXCEPT ![v].st = "dropped"]
    /\ UNCHANGED <<consumers, msgs, owned>>
    /\ MsgFrame

\* impl Drop for BorrowedMessage
DropView(v) ==
    /\ views[v].st = "alive"
    /\ msgs' = MessageDestroy(msgs, views[v].ptr)
    /\ views' = [views EXCEPT ![v].st = "dropped"]
    /\ UNCHANGED <<consumers, owned>>
    /\ MsgFrame

\* The delivery callback gives its view up without dropping it (mem::forget).
ForgetView(v) ==
    /\ views[v].st = "alive"
    /\ msgs[views[v].ptr].prov = "dr"
    /\ views' = [views EXCEPT ![v].st = "forgotten"]
    /\ UNCHANGED <<consumers, msgs, owned>>
    /\ MsgFrame

\* The delivery callback returns, which ends the borrow its views hold, and the
\* engine releases the report's buffer.
DeliveryCallbackReturn(p) ==
    /\ msgs[p].prov = "dr"
    /\ msgs[p].cbActive
    /\ \A v \in MsgIds : ~(views[v].st = "alive" /\ views[v].owner = p /\ msgs[views[v].ptr].prov = "dr")
    /\ msgs' = [msgs EXCEPT ![p].cbActive = FALSE, ![p].engineFrees = @ + 1,
                            ![p].native = Poison, ![p].st = "released"]
    /\ UNCHANGED <<consumers, views, owned>>
    /\ MsgFrame

\* A consumer goes away, which no borrow of it may outlive.
ConsumerDrop(c) ==
    /\ consumers[c] = "alive"
    /\ \A v \in MsgIds : ~(views[v].st = "alive" /\ views[v].owner = c /\ msgs[views[v].ptr].prov = "consumer")
    /\ consumers' = [consumers EXCEPT ![c] = "gone"]
    /\ UNCHANGED <<msgs, views, owned>>
    /\ MsgFrame

MsgInit ==
    /\ consumers = [c \in Consumers |-> "alive"]
    /\ msgs = [p \in MsgIds |-> NoMsg]
    /\ views = [p \in MsgIds |-> NoView]
    /\ owned = [p \in MsgIds |-> NoOwned]

\* One message of any content, wrapped by either constructor.
DetachInit ==
    /\ consumers = [c \in Consumers |-> "alive"]
    /\ owned = [p \in MsgIds |-> NoOwned]
    /\ \E n \in NativeMessages :
        \/ /\ ~IsError(n.err)
           /\ msgs = FromConsumerMsgs([p \in MsgIds |-> NoMsg], 1, 1, n)
           /\ views = FromConsumerViews([p \in MsgIds |-> NoView], 1, 1, n)
        \/ /\ msgs = FromDrCallbackMsgs([p \in MsgIds |-> NoMsg], 1, n)
           /\ views = FromDrCallbackViews([p \in MsgIds |-> NoView], 1, n)

DetachNext ==
    \/ \E v \in MsgIds : Detach(v)
    \/ \E v \in MsgIds : DropView(v)
    \/ \E v \in MsgIds : ForgetView(v)
    \/ \E p \in MsgIds : DeliveryCallbackReturn(p)
    \/ \E c \in Consumers : ConsumerDrop(c)

MsgNext ==
    \/ ConsumerPoll
    \/ DeliveryCallback
    \/ \E v \in MsgIds : DropView(v)
    \/ \E v \in MsgIds : ForgetView(v)
    \/ \E p \in MsgIds : DeliveryCallbackReturn(p)
    \/ \E c \in Consumers : ConsumerDrop(c)

\* ------------------------------------------------- Client::new, step by step

\* let errstr = [0i8; 1024]
ErrstrLen == 1024

\* How far beyond the buffer the longest diagnostic tried reaches.
MaxOverrun == 2

\* A byte buffer, kept as its size and its leading bytes; every byte after
\* them is 0.
Zeros(n) == [size |-> n, text |-> <<>>]
NoBuffer == Zeros(0)
ByteAt(buf, k) == IF k <= Len(buf.text) THEN buf.text[k] ELSE 0

\* Diagnostics the engine can produce: C strings (no NUL byte inside), one of
\* them longer than the buffer.
Diagnostics == {<<70, 97>>, [k \in 1..(ErrstrLen + MaxOverrun) |-> 105]}

\* rd_kafka_new(.., errstr, errstr_size) on failure: the engine prints its
\* diagnostic into the buffer, cut to errstr_size - 1 bytes, and terminates it.
RdSnprintf(buf, d) ==
    [buf EXCEPT !.text = IF Len(d) < buf.size THEN d ELSE SubSeq(d, 1, buf.size - 1)]

FirstNul(buf) ==
    CHOOSE k \in 1..(Len(buf.text) + 1) :
        ByteAt(buf, k) = 0 /\ \A j \in 1..(k - 1) : ByteAt(buf, j) # 0

BytesCstrToOwned_empty(buf) == SubSeq(buf.text, 1, 0)

\* util::bytes_cstr_to_owned: the bytes before the first NUL, as a String.
BytesCstrToOwned(buf) == SubSeq(buf.text, 1, FirstNul(buf) - 1)

\* Result<Client<C>, KafkaError> of Client::new.
ClientCreation(text) == [kind |-> "ClientCreation", text |-> text]
NoNewError == [kind |-> "", text |-> <<>>]
NoNewResult == [tag |-> "none", error |-> NoNewError]
NewOk == [tag |-> "Ok", error |-> NoNewError]
NewErr(e) == [tag |-> "Err", error |-> e]

\* A NativeClientConfig as Client::new receives it: no opaque, no callbacks.
EmptyConf == [opaque |-> NullPtr, cbs |-> {}]

NewSteps_handleFirst ==
    <<"box", "rd_kafka_new", "set_opaque", "set_log_cb", "set_stats_cb", "set_error_cb",
      "return">>

\* The statements of Client::new, in order.
NewSteps ==
    <<"box", "set_opaque", "set_log_cb", "set_stats_cb", "set_error_cb", "rd_kafka_new",
      "return">>

\* The attempt whose Client::new is in progress.
Constructing == CHOOSE i \in Attempts : clients[i].st = "constructing"

AtStep(name) == newPc > 0 /\ NewSteps[newPc] = name

\* Client::new is entered: errstr is zeroed.
NewBegin ==
    /\ newPc = 0
    /\ \E i \in Attempts : clients[i].st = "none"
    /\ clients' = [clients EXCEPT ![FreshAttempt].st = "constructing"]
    /\ newPc' = 1
    /\ conf' = EmptyConf
    /\ errstr' = Zeros(ErrstrLen)
    /\ UNCHANGED <<handles, ctxs, cbs, observedFreed, registered, newDiag, newResult>>
    /\ NewFrame

\* let boxed_context = Box::new(context)
NewBox ==
    /\ AtStep("box")
    /\ ctxs' = BoxNew(ctxs, Constructing)
    /\ clients' = [clients EXCEPT ![Constructing].context = Constructing]
    /\ newPc' = newPc + 1
    /\ UNCHANGED <<handles, cbs, observedFreed, conf, errstr, registered, newDiag, newResult>>
    /\ NewFrame

\* rd_kafka_conf_set_opaque(config_ptr, boxed_context.as_ref() as *const C)
NewSetOpaque ==
    /\ AtStep("set_opaque")
    /\ conf' = [conf EXCEPT !.opaque = clients[Constructing].context]
    /\ newPc' = newPc + 1
    /\ UNCHANGED <<clientVars, errstr, registered, newDiag, newResult>>
    /\ NewFrame

\* rd_kafka_conf_set_log_cb / _stats_cb / _error_cb
NewSetCb(step, kind) ==
    /\ AtStep(step)
    /\ conf' = [conf EXCEPT !.cbs = @ \cup {kind}]
    /\ newPc' = newPc + 1
    /\ UNCHANGED <<clientVars, errstr, registered, newDiag, newResult>>
    /\ NewFrame

NewSetLogCb == NewSetCb("set_log_cb", "log")
NewSetStatsCb == NewSetCb("set_stats_cb", "stats")
NewSetErrorCb == NewSetCb("set_error_cb", "error")

\* rd_kafka_new returns a handle: the engine has taken the configuration as
\* it was at the call, and may run its callbacks from now on.
NewRdKafkaNewOk ==
    /\ AtStep("rd_kafka_new")
    /\ LET h == FreshHandle
       IN  /\ handles' = [handles EXCEPT ![h] =
                            [st |-> "live", opaque |-> conf.opaque, destroys |-> 0]]
           /\ registered' = [registered EXCEPT ![h] = conf.cbs]
           /\ clients' = [clients EXCEPT ![Constructing].native = h]
    /\ newPc' = newPc + 1
    /\ UNCHANGED <<ctxs, cbs, observedFreed, conf, errstr, newDiag, newResult>>
    /\ NewFrame

\* rd_kafka_new returns null, having written a diagnostic into errstr.
NewRdKafkaNewFail ==
    /\ AtStep("rd_kafka_new")
    /\ \E d \in Diagnostics :
        /\ errstr' = RdSnprintf(errstr, d)
        /\ newDiag' = [newDiag EXCEPT ![Constructing] = d]
    /\ newPc' = newPc + 1
    /\ UNCHANGED <<clientVars, conf, registered, newResult>>
    /\ NewFrame

\* client_ptr is not null: Ok(Client { native: NativeClient::from_ptr(client_ptr),
\* context: boxed_context }).
NewReturnOk ==
    /\ AtStep("return")
    /\ clients[Constructing].native # NullPtr
    /\ clients' = [clients EXCEPT ![Constructing].st = "alive"]
    /\ newResult' = [newResult EXCEPT ![Constructing] = NewOk]
    /\ newPc' = 0
    /\ errstr' = NoBuffer
    /\ UNCHANGED <<handles, ctxs, cbs, observedFreed, conf, registered, newDiag>>
    /\ NewFrame

\* client_ptr.is_null(): Err(KafkaError::ClientCreation(descr)); boxed_context
\* and errstr go out of scope.
NewReturnErr ==
    /\ AtStep("return")
    /\ clients[Constructing].native = NullPtr
    /\ newResult' = [newResult EXCEPT ![Constructing] =
                        NewErr(ClientCreation(BytesCstrToOwned(errstr)))]
    /\ ctxs' = BoxDrop(ctxs, clients[Constructing].context, "new")
    /\ clients' = [clients EXCEPT ![Constructing] =
                     [st |-> "failed", native |-> NullPtr, context |-> NullPtr, k |-> 0]]
    /\ newPc' = 0
    /\ errstr' = NoBuffer
    /\ UNCHANGED <<handles, cbs, observedFreed, conf, registered, newDiag>>
    /\ NewFrame

\* The engine runs a callback of a handle: one that the configuration the
\* handle was made from has registered, with the opaque of that configuration.
NewCbEnter(kind) ==
    \E t \in TramThreads, h \in Attempts :
        /\ kind \in registered[h]
        /\ handles[h].opaque # NullPtr
        /\ CbEnter(t, h, kind)

NewLogCb == NewCbEnter("log")
NewStatsCb == NewCbEnter("stats")
NewErrorCb == NewCbEnter("error")

NewIdle ==
    /\ newPc = 0
    /\ conf = EmptyConf
    /\ errstr = NoBuffer
    /\ registered = [h \in Attempts |-> {}]
    /\ newDiag = [i \in Attempts |-> <<>>]
    /\ newResult = [i \in Attempts |-> NoNewResult]

NewNext ==
    \/ NewBegin
    \/ NewBox
    \/ NewSetOpaque
    \/ NewSetLogCb
    \/ NewSetStatsCb
    \/ NewSetErrorCb
    \/ NewRdKafkaNewOk
    \/ NewRdKafkaNewFail
    \/ NewReturnOk
    \/ NewReturnErr
    \/ NewLogCb
    \/ NewStatsCb
    \/ NewErrorCb
    \/ native_log_cb_return
    \/ native_stats_cb_return
    \/ native_error_cb_return
    \/ \E i \in Attempts : ClientDrop(i)
    \/ \E i \in Attempts : DropNativeBegin(i)
    \/ \E i \in Attempts : DropNativeEnd(i)
    \/ \E i \in Attempts : DropContext(i)

\* ------------------------------------------------------------------ queries

\* Number of query operations made in a run.
MaxFetches == 2

TopicIds == 1..MaxFetches

\* Names as the bytes of a &str: "o", the empty string, and "o\0p".
Names == {<<111>>, <<>>, <<111, 0, 112>>}

HasNul_never(s) == FALSE

\* CString::new(s) fails exactly when s holds a zero byte.
HasNul(s) == \E k \in 1..Len(s) : s[k] = 0

\* Low and high offsets the engine can report.
Watermarks == {<<0, 0>>, <<2, 5>>}

\* let mut low = -1; let mut high = -1;
Sentinels == <<-1, -1>>

\* KafkaError variants of the query operations.
MetadataFetch(e) == KafkaError("MetadataFetch", 0, e)
GroupListFetch(e) == KafkaError("GroupListFetch", 0, e)
NulError == KafkaError("Nul", 0, "")

\* KafkaResult<Metadata>, KafkaResult<(i64, i64)>, KafkaResult<GroupList>.
NoValue == [kind |-> "", ptr |-> NullPtr, pair |-> <<0, 0>>]
Metadata(ptr) == [kind |-> "Metadata", ptr |-> ptr, pair |-> <<0, 0>>]
GroupList(ptr) == [kind |-> "GroupList", ptr |-> ptr, pair |-> <<0, 0>>]
Pair(p) == [kind |-> "Pair", ptr |-> NullPtr, pair |-> p]
NoFetchResult == [tag |-> "none", error |-> NoKafkaError, value |-> NoValue]
FetchOk(v) == [tag |-> "Ok", error |-> NoKafkaError, value |-> v]
FetchErr(e) == [tag |-> "Err", error |-> e, value |-> NoValue]
\* The process stopped inside the engine; the operation never returned.
FetchCrashed == [tag |-> "crashed", error |-> NoKafkaError, value |-> NoValue]

\* An engine call as the engine sees it: the function, the flag, the topic
\* handle, the C string (None for a null pointer), the code returned and what
\* the engine stored through the out-parameters (None: nothing).
EngineCall(fn, flag, ptr, str, ret, out) ==
    [fn |-> fn, flag |-> flag, ptr |-> ptr, str |-> str, ret |-> ret, out |-> out]

NoTopic == [st |-> "none", name |-> <<>>, destroys |-> 0]
NoFetchIn == [fn |-> "", arg |-> None]

FreshTopic == CHOOSE p \in TopicIds : topics[p].st = "none" /\
                    \A q \in TopicIds : q < p => topics[q].st # "none"

\* rd_kafka_topic_new: a new handle created, unless the engine returned null.
TopicNew(ts, p, name) ==
    IF p = NullPtr THEN ts ELSE [ts EXCEPT ![p] = [st |-> "live", name |-> name, destroys |-> 0]]

\* impl Drop for NativeTopic: rd_kafka_topic_destroy(self.ptr), whatever ptr is.
NativeTopicDrop(ts, p) ==
    IF p = NullPtr THEN ts ELSE [ts EXCEPT ![p].st = "destroyed", ![p].destroys = @ + 1]

\* Option<&str> arguments.
NameArgs == {None} \cup {Some(n) : n \in Names}

\* A query needs &self of a Client, and a process that is still running.
CanFetch ==
    /\ fetchN < MaxFetches
    /\ \E i \in Attempts : clients[i].st = "alive"
    /\ fetchOut.tag # "crashed"

\* What the engine stores for a call that returns ret: a result structure
\* when it reports no error.
EngineStruct(ret) == IF IsError(ret) THEN None ELSE Some(structs + 1)

QueryCalls_retries(call) == IF IsError(call.ret) THEN <<call, call>> ELSE <<call>>

\* The engine query of an operation, as the operation makes it: one call in
\* straight-line code, whatever it returns.
QueryCalls(call) == <<call>>

\* Client::fetch_metadata. With a topic name, native_topic makes the handle
\* (rd_kafka_topic_new, which may return null); evaluating the argument
\* native_topic.map(|t| t.ptr()) moves the NativeTopic into the closure, which
\* drops it (rd_kafka_topic_destroy) when it returns the pointer; then
\* rd_kafka_metadata is called. rd_kafka_topic_destroy on a null pointer is
\* outside the engine's contract: the process stops there, or goes on.
FetchMetadata ==
    /\ CanFetch
    /\ \E topic \in NameArgs, made \in BOOLEAN, survives \in BOOLEAN, ret \in ErrCodes :
        LET named == topic # None
            nul == named /\ HasNul(topic[1])
            wrapped == named /\ ~nul
            p == IF wrapped /\ made THEN FreshTopic ELSE NullPtr
            flag == IF named THEN 0 ELSE 1
            crash == wrapped /\ p = NullPtr /\ ~survives
            handle ==
                IF wrapped
                THEN <<EngineCall("rd_kafka_topic_new", 0, p, Some(topic[1]), "", None),
                       EngineCall("rd_kafka_topic_destroy", 0, p, None, "", None)>>
                ELSE <<>>
            call == EngineCall("rd_kafka_metadata", flag, p, None, ret, EngineStruct(ret))
        IN  /\ fetchIn' = [fn |-> "fetch_metadata", arg |-> topic]
            /\ topics' = IF wrapped THEN NativeTopicDrop(TopicNew(topics, p, topic[1]), p)
                         ELSE topics
            /\ nullDestroys' = IF wrapped /\ p = NullPtr THEN nullDestroys + 1
                               ELSE nullDestroys
            /\ fetchLog' = IF nul THEN <<>> ELSE IF crash THEN handle
                           ELSE handle \o QueryCalls(call)
            /\ structs' = IF nul \/ crash \/ IsError(ret) THEN structs ELSE structs + 1
            /\ fetchOut' = IF nul THEN FetchErr(NulError)
                           ELSE IF crash THEN FetchCrashed
                           ELSE IF IsError(ret) THEN FetchErr(MetadataFetch(ret))
                           ELSE FetchOk(Metadata(structs + 1))
    /\ fetchN' = fetchN + 1
    /\ FetchFrame

WatermarksResult_ignoresRet(ret, low, high) == FetchOk(Pair(<<low, high>>))

\* fetch_watermarks, after the engine call.
WatermarksResult(ret, low, high) ==
    IF IsError(ret) THEN FetchErr(MetadataFetch(ret)) ELSE FetchOk(Pair(<<low, high>>))

\* Client::fetch_watermarks. The engine fills low and high when it reports no
\* error; when it reports one it may or may not have stored something.
FetchWatermarks ==
    /\ CanFetch
    /\ \E name \in Names, ret \in ErrCodes, w \in Watermarks, wrote \in BOOLEAN :
        LET nul == HasNul(name)
            stored == IF ~IsError(ret) \/ wrote THEN Some(w) ELSE None
            low == IF stored = None THEN Sentinels[1] ELSE w[1]
            high == IF stored = None THEN Sentinels[2] ELSE w[2]
        IN  /\ fetchIn' = [fn |-> "fetch_watermarks", arg |-> Some(name)]
            /\ fetchLog' = IF nul THEN <<>>
                           ELSE QueryCalls(EngineCall("rd_kafka_query_watermark_offsets", 0,
                                                      NullPtr, Some(name), ret, stored))
            /\ fetchOut' = IF nul THEN FetchErr(NulError) ELSE WatermarksResult(ret, low, high)
    /\ fetchN' = fetchN + 1
    /\ UNCHANGED <<topics, nullDestroys, structs>>
    /\ FetchFrame

GroupPtr_emptyIsNull(group) ==
    IF group # None /\ group[1] # <<>> THEN Some(group[1]) ELSE None

\* let group_c_ptr = if group.is_some() { group_c.as_ptr() } else { ptr::null_mut() }
GroupPtr(group) == IF group # None THEN Some(group[1]) ELSE None

\* Client::fetch_group_list.
FetchGroupList ==
    /\ CanFetch
    /\ \E group \in NameArgs, ret \in ErrCodes :
        LET nul == group # None /\ HasNul(group[1])
        IN  /\ fetchIn' = [fn |-> "fetch_group_list", arg |-> group]
            /\ fetchLog' = IF nul THEN <<>>
                           ELSE QueryCalls(EngineCall("rd_kafka_list_groups", 0, NullPtr,
                                                      GroupPtr(group), ret, EngineStruct(ret)))
            /\ structs' = IF nul \/ IsError(ret) THEN structs ELSE structs + 1
            /\ fetchOut' = IF nul THEN FetchErr(NulError)
                           ELSE IF IsError(ret) THEN FetchErr(GroupListFetch(ret))
                           ELSE FetchOk(GroupList(structs + 1))
    /\ fetchN' = fetchN + 1
    /\ UNCHANGED <<topics, nullDestroys>>
    /\ FetchFrame

FetchIdle ==
    /\ topics = [p \in TopicIds |-> NoTopic]
    /\ nullDestroys = 0
    /\ structs = 0
    /\ fetchLog = <<>>
    /\ fetchIn = NoFetchIn
    /\ fetchOut = NoFetchResult
    /\ fetchN = 0

\* The state Client::new leaves when it returns Ok: one Client, its handle
\* and its boxed Context.
ClientBuilt ==
    /\ clients = [i \in Attempts |->
                    IF i = 1 THEN [st |-> "alive", native |-> 1, context |-> 1, k |-> 0]
                    ELSE NoClient]
    /\ handles = [h \in Attempts |->
                    IF h = 1 THEN [st |-> "live", opaque |-> 1, destroys |-> 0] ELSE NoHandle]
    /\ ctxs = [c \in Attempts |-> IF c = 1 THEN [NoCtx EXCEPT !.st = "boxed"] ELSE NoCtx]
    /\ cbs = [t \in Threads |-> IdleCb]
    /\ observedFreed = FALSE

FetchNext ==
    \/ FetchMetadata
    \/ FetchWatermarks
    \/ FetchGroupList

\* ------------------------------------------------- trampolines, in detail

\* Strings the engine passes, as bytes: " x\n" and " ".
CStrings == {<<32, 120, 10>>, <<32>>}

\* A facility and a message the engine logs: "f " and " x\n".
LogArgs == {<< <<102, 32>>, <<32, 120, 10>> >>}

IsSpace(b) == b \in {9, 10, 13, 32}

\* str::trim: without the leading and the trailing whitespace.
Trim(s) ==
    LET solid == {k \in 1..Len(s) : ~IsSpace(s[k])}
    IN  IF solid = {} THEN <<>>
        ELSE SubSeq(s, CHOOSE k \in solid : \A j \in solid : k <= j,
                       CHOOSE k \in solid : \A j \in solid : j <= k)

\* Integers the engine hands to the error callback: a code of
\* rd_kafka_resp_err_t, and an integer that is no variant of it.
ErrInts == {-185, 4242}

\* rdsys::primitive_to_rd_kafka_resp_err_t: the variant with that value, if
\* there is one.
PrimitiveToRespErr(n) ==
    IF n = -191 THEN Some("PARTITION_EOF")
    ELSE IF n = -185 THEN Some("TIMED_OUT")
    ELSE IF n = 0 THEN Some("NO_ERROR")
    ELSE None

\* KafkaError::Global(err.into())
Global(e) == KafkaError("Global", 0, e)

\* A call of a Context method: the error (for error), the facility (for log)
\* and the text (message, reason, or the parsed statistics).
ContextCall(method, error, fac, text) ==
    [method |-> method, error |-> error, fac |-> fac, text |-> text]

\* A buffer of the engine that a trampoline receives a pointer to: its bytes,
\* and whether the engine still holds it.
EngineBuf(bytes) == [bytes |-> bytes, st |-> "engine"]

CStrFromPtr_owns(buf) == [buf EXCEPT !.st = "freed"]

\* CStr::from_ptr(p): a view of the bytes up to the NUL; the buffer stays the
\* engine's, and dropping the view (or the Cow made from it) releases nothing.
CStrFromPtr(buf) == [bytes |-> buf.bytes, st |-> buf.st]

\* slice::from_raw_parts(json as *mut u8, json_len): a view of the payload.
SliceFromRawParts(buf) == [bytes |-> buf.bytes, st |-> buf.st]

\* The arguments of a trampoline invocation and what it has done so far;
\* bufs are the engine's argument buffers as the trampoline leaves them.
IdleTram ==
    [kind |-> "none", parse |-> "", err |-> 0, fac |-> <<>>, text |-> <<>>, calls |-> <<>>,
     errLogs |-> 0, ret |-> None, exit |-> "none", afterBad |-> FALSE, bufs |-> <<>>]

CanRun(t) == ~aborted /\ tram[t].exit # "panicked"

\* native_log_cb up to the call of Context::log with the trimmed facility and
\* message.
TramLog ==
    \E t \in TramThreads, h \in Attempts, a \in LogArgs :
        /\ CanRun(t)
        /\ CbEnterCore(t, h, "log")
        /\ tram' = [tram EXCEPT ![t] =
                      [IdleTram EXCEPT !.kind = "log", !.fac = a[1], !.text = a[2],
                                       !.bufs = <<CStrFromPtr(EngineBuf(a[1])),
                                                  CStrFromPtr(EngineBuf(a[2]))>>,
                                       !.calls = <<ContextCall("log", NoKafkaError, Trim(a[1]),
                                                               Trim(a[2]))>>,
                                       !.exit = "running", !.afterBad = badStats]]
        /\ UNCHANGED <<badStats, aborted>>
        /\ TramFrame

StatsDispatch_callsAnyway(parse, json) == <<ContextCall("stats", NoKafkaError, <<>>, json)>>

\* match serde_json::from_slice(slice) { Ok(stats) => (*context).stats(stats),
\*                                       Err(e) => error!(..) }
StatsDispatch(parse, json) ==
    IF parse = "Ok" THEN <<ContextCall("stats", NoKafkaError, <<>>, json)>> ELSE <<>>

\* native_stats_cb up to the dispatch: the payload parses, or it does not and
\* the failure is logged at error level.
TramStats ==
    \E t \in TramThreads, h \in Attempts, parse \in {"Ok", "Err"}, json \in {<<123, 125>>} :
        /\ CanRun(t)
        /\ CbEnterCore(t, h, "stats")
        /\ tram' = [tram EXCEPT ![t] =
                      [IdleTram EXCEPT !.kind = "stats", !.parse = parse, !.text = json,
                                       !.bufs = <<SliceFromRawParts(EngineBuf(json))>>,
                                       !.calls = StatsDispatch(parse, json),
                                       !.errLogs = IF parse = "Ok" THEN 0 ELSE 1,
                                       !.exit = "running", !.afterBad = badStats]]
        /\ UNCHANGED <<badStats, aborted>>
        /\ TramFrame

\* native_error_cb when err is a variant of rd_kafka_resp_err_t: up to the
\* call of Context::error with Global(err) and the trimmed reason.
TramError ==
    \E t \in TramThreads, h \in Attempts, err \in ErrInts, reason \in CStrings :
        /\ CanRun(t)
        /\ PrimitiveToRespErr(err) # None
        /\ CbEnterCore(t, h, "error")
        /\ tram' = [tram EXCEPT ![t] =
                      [IdleTram EXCEPT !.kind = "error", !.err = err, !.text = reason,
                                       !.bufs = <<CStrFromPtr(EngineBuf(reason))>>,
                                       !.calls = <<ContextCall("error",
                                                               Global(PrimitiveToRespErr(err)[1]),
                                                               <<>>, Trim(reason))>>,
                                       !.exit = "running", !.afterBad = badStats]]
        /\ UNCHANGED <<badStats, aborted>>
        /\ TramFrame

\* native_error_cb when err is no variant: expect panics, before the Context
\* is recovered. The panic leaves an extern "C" function: the process is
\* aborted, or the unwinding goes on into the engine's frames.
TramErrorPanic ==
    \E t \in TramThreads, h \in Attempts, err \in ErrInts, reason \in CStrings,
       abort \in BOOLEAN :
        /\ CanRun(t)
        /\ cbs[t].st = "idle"
        /\ handles[h].st \in {"live", "destroying"}
        /\ PrimitiveToRespErr(err) = None
        /\ tram' = [tram EXCEPT ![t] =
                      [IdleTram EXCEPT !.kind = "error", !.err = err, !.text = reason,
                                       !.bufs = <<EngineBuf(reason)>>,
                                       !.exit = "panicked", !.afterBad = badStats]]
        /\ aborted' = abort
        /\ UNCHANGED <<clientVars, badStats>>
        /\ TramFrame

\* What the trampoline hands back to the engine: native_stats_cb returns 0,
\* the other two return nothing.
TramRet(kind) == IF kind = "stats" THEN Some(0) ELSE None

\* The Context method (or the error log) is done: mem::forget(context), and
\* the trampoline returns.
TramReturn(kind) ==
    \E t \in TramThreads :
        /\ ~aborted
        /\ tram[t].exit = "running"
        /\ CbReturnCore(t, kind)
        /\ tram' = [tram EXCEPT ![t].exit = "returned", ![t].ret = TramRet(kind)]
        /\ badStats' = (badStats \/ (kind = "stats" /\ tram[t].parse = "Err"))
        /\ UNCHANGED aborted
        /\ TramFrame

TramLogReturn == TramReturn("log")
TramStatsReturn == TramReturn("stats")
TramErrorReturn == TramReturn("error")

\* A query made while the engine threads run trampolines.
TramQuery == ~aborted /\ FetchWatermarks

TramIdle ==
    /\ tram = [t \in Threads |-> IdleTram]
    /\ badStats = FALSE
    /\ aborted = FALSE

TramNext ==
    \/ TramLog
    \/ TramStats
    \/ TramError
    \/ TramErrorPanic
    \/ TramLogReturn
    \/ TramStatsReturn
    \/ TramErrorReturn
    \/ TramQuery

\* ------------------------------------------- a Context method that panics

\* Number of times one Context is released by an unwinding trampoline.
MaxPanics == 2

\* Unwinding out of a trampoline runs the destructors of its locals; the
\* Box<C> made by Box::from_raw is one of them (mem::forget was not reached).
UnwindDrop(cs, c) == [BoxDrop(cs, c, "trampoline") EXCEPT ![c].aliases = @ - 1]

PanicNewOk == ~aborted /\ ClientNewOk

PanicCbEnter ==
    /\ ~aborted
    /\ \E t \in TramThreads, h \in Attempts, kind \in {"log", "stats", "error"} :
          CbEnter(t, h, kind)

PanicCbReturn ==
    /\ ~aborted
    /\ \E t \in TramThreads, kind \in {"log", "stats", "error"} : CbReturn(t, kind)

\* The Context method panics and the process is aborted at the boundary of
\* the extern "C" function: nothing runs any more.
PanicAbort ==
    /\ ~aborted
    /\ \E t \in TramThreads : cbs[t].st = "running"
    /\ aborted' = TRUE
    /\ UNCHANGED <<clientVars, tram, badStats>>
    /\ TramFrame

\* The Context method panics and the panic unwinds: through the trampoline,
\* dropping its box, through the engine's frames, up to the Rust caller that
\* polled the engine, which catches it (or whose thread ends).
PanicUnwind ==
    /\ ~aborted
    /\ \E t \in TramThreads :
          /\ cbs[t].st = "running"
          /\ ctxs[cbs[t].ctx].frees < MaxPanics
          /\ ctxs' = UnwindDrop(ctxs, cbs[t].ctx)
          /\ cbs' = [cbs EXCEPT ![t] = IdleCb]
    /\ UNCHANGED <<clients, handles, observedFreed>>
    /\ ClientFrame

\* Client::context: a reference to the Context the Client's box points to.
PanicContext ==
    /\ ~aborted
    /\ \E i \in Attempts :
          /\ clients[i].st = "alive"
          /\ observedFreed' = (observedFreed \/ ctxs[clients[i].context].st # "boxed")
    /\ UNCHANGED <<clients, handles, ctxs, cbs>>
    /\ ClientFrame

PanicDrop ==
    /\ ~aborted
    /\ \E i \in Attempts :
          \/ ClientDrop(i)
          \/ DropNativeBegin(i)
          \/ DropNativeEnd(i)
          \/ DropContext(i)

PanicNext ==
    \/ PanicNewOk
    \/ PanicCbEnter
    \/ PanicCbReturn
    \/ PanicAbort
    \/ PanicUnwind
    \/ PanicContext
    \/ PanicDrop

\* ------------------------------------------------ NativeClient, in public

\* Number of NativeClient::from_ptr calls made in a run.
MaxWrappers == 2

WrapperIds == 1..MaxWrappers

NoWrapper == [st |-> "none", ptr |-> NullPtr]

\* rd_kafka_destroy(ptr), from its call to its return.
RdKafkaDestroy(hs, h) == [NativeClientDrop(hs, h) EXCEPT ![h].st = "destroyed"]

\* Client::native_ptr: the raw pointer of the Client's NativeClient.
WrapNativePtr ==
    \E i \in Attempts :
        /\ clients[i].st = "alive"
        /\ known' = known \cup {clients[i].native}
        /\ UNCHANGED <<clientVars, wrappers>>
        /\ WrapFrame

\* Client::native_client followed by NativeClient::ptr: the same pointer.
WrapNativeClientPtr ==
    \E i \in Attempts :
        /\ clients[i].st = "alive"
        /\ known' = known \cup {clients[i].native}
        /\ UNCHANGED <<clientVars, wrappers>>
        /\ WrapFrame

\* NativeClient::from_ptr(ptr): a NativeClient around any pointer given.
WrapFromPtr ==
    \E p \in known, w \in WrapperIds :
        /\ wrappers[w].st = "none"
        /\ \A v \in WrapperIds : v < w => wrappers[v].st # "none"
        /\ wrappers' = [wrappers EXCEPT ![w] = [st |-> "alive", ptr |-> p]]
        /\ UNCHANGED <<clientVars, known>>
        /\ WrapFrame

\* A NativeClient made by from_ptr goes out of scope.
WrapDropWrapper ==
    \E w \in WrapperIds :
        /\ wrappers[w].st = "alive"
        /\ wrappers' = [wrappers EXCEPT ![w].st = "dropped"]
        /\ handles' = RdKafkaDestroy(handles, wrappers[w].ptr)
        /\ UNCHANGED <<clients, ctxs, cbs, observedFreed, known>>
        /\ WrapFrame

\* A Client goes out of scope: its NativeClient, then its Context box.
WrapDropClient ==
    \E i \in Attempts :
        /\ clients[i].st = "alive"
        /\ clients' = [clients EXCEPT ![i].st = "gone"]
        /\ handles' = RdKafkaDestroy(handles, clients[i].native)
        /\ ctxs' = BoxDrop(ctxs, clients[i].context, "client")
        /\ UNCHANGED <<cbs, observedFreed, wrapVars>>
        /\ WrapFrame

WrapIdle ==
    /\ wrappers = [w \in WrapperIds |-> NoWrapper]
    /\ known = {}

WrapNext ==
    \/ ClientNewOk
    \/ WrapNativePtr
    \/ WrapNativeClientPtr
    \/ WrapFromPtr
    \/ WrapDropWrapper
    \/ WrapDropClient

Init == ClientInit /\ TsIdle /\ MsgInit /\ NewIdle /\ FetchIdle /\ TramIdle /\ WrapIdle

Next == ClientNext

Spec == Init /\ [][Next]_vars

InitTs == ClientInit /\ TsInit /\ MsgInit /\ NewIdle /\ FetchIdle /\ TramIdle /\ WrapIdle

NextTs == TsNext

SpecTs == InitTs /\ [][NextTs]_vars

NextMsg == MsgNext

SpecMsg == Init /\ [][NextMsg]_vars

InitDetach == ClientInit /\ TsIdle /\ DetachInit /\ NewIdle /\ FetchIdle /\ TramIdle /\ WrapIdle

NextDetach == DetachNext

SpecDetach == InitDetach /\ [][NextDetach]_vars

NextNew == NewNext

SpecNew == Init /\ [][NextNew]_vars

InitFetch == ClientBuilt /\ TsIdle /\ MsgInit /\ NewIdle /\ FetchIdle /\ TramIdle /\ WrapIdle

NextFetch == FetchNext

SpecFetch == InitFetch /\ [][NextFetch]_vars

NextTram == TramNext

SpecTram == InitFetch /\ [][NextTram]_vars

NextPanic == PanicNext

SpecPanic == Init /\ [][NextPanic]_vars

NextWrap == WrapNext

SpecWrap == Init /\ [][NextWrap]_vars

\* ------------------------------------------------------------------ claims

Built(i) == clients[i].native # NullPtr

Running(h) == {t \in Threads : cbs[t].st = "running" /\ cbs[t].h = h}

\* C1: every Client built by Client::new has rd_kafka_destroy called on its
\* handle exactly once: not before the Client is dropped, once when it has
\* been dropped, never twice; no two Clients share a handle, and no handle
\* without a Client is destroyed.
C1_DestroyExactlyOnce ==
    /\ \A i \in Attempts : Built(i) =>
        LET h == clients[i].native
        IN  /\ handles[h].destroys <= 1
            /\ (clients[i].st = "alive" => handles[h].destroys = 0)
            /\ (clients[i].st = "gone" => handles[h].destroys = 1)
    /\ \A i, j \in Attempts : (Built(i) /\ Built(j) /\ i # j) => clients[i].native # clients[j].native
    /\ \A h \in Attempts : handles[h].st = "none" => handles[h].destroys = 0

\* Two Clients were built and dropped, one after the other or overlapping.
C1_Witness ==
    \E i, j \in Attempts :
        /\ i # j
        /\ clients[i].st = "gone" /\ handles[clients[i].native].destroys = 1
        /\ clients[j].st = "gone" /\ handles[clients[j].native].destroys = 1

C3_DrViewNeverDestroys ==
    \A p \in MsgIds : msgs[p].prov = "dr" =>
        /\ msgs[p].destroys = 0
        /\ msgs[p].destroys + msgs[p].engineFrees <= 1

\* C4: a message handed to from_consumer with an error code yields no view:
\* the result is Err(PartitionEOF(partition)) for the end-of-partition code and
\* Err(MessageConsumption(code)) for any other, and the buffer has been
\* released when the result is there.
C4_ConsumerErrorYieldsNoView ==
    \A p \in MsgIds : (msgs[p].prov = "consumer" /\ msgs[p].sent.err # "NO_ERROR") =>
        /\ \A v \in MsgIds : views[v].st = "none" \/ views[v].ptr # p
        /\ msgs[p].result.tag = "Err"
        /\ msgs[p].result.error =
             IF msgs[p].sent.err = "PARTITION_EOF"
             THEN [kind |-> "PartitionEOF", partition |-> msgs[p].sent.partition, code |-> ""]
             ELSE [kind |-> "MessageConsumption", partition |-> 0, code |-> msgs[p].sent.err]
        /\ msgs[p].destroys = 1
        /\ msgs[p].st = "released"

\* from_consumer has returned an end-of-partition error for partition 3 and a
\* consumption error for another message.
C4_Witness ==
    \E p, q \in MsgIds :
        /\ msgs[p].prov = "consumer" /\ msgs[p].sent.err = "PARTITION_EOF"
        /\ msgs[p].sent.partition = 3 /\ msgs[p].result.error.partition = 3
        /\ msgs[q].prov = "consumer" /\ msgs[q].sent.err = "TIMED_OUT"
        /\ msgs[q].result.error.kind = "MessageConsumption"

\* C5: a message handed to from_consumer has rd_kafka_message_destroy called on
\* it at most once and is released by nothing else: not while its view is
\* alive (the buffer then holds what the engine delivered), once when
\* from_consumer returned an error, once when the view has been dropped.
C5_ConsumerMessageDestroyedOnce ==
    \A p \in MsgIds : msgs[p].prov = "consumer" =>
        /\ msgs[p].destroys <= 1
        /\ msgs[p].engineFrees = 0
        /\ (views[p].st = "alive" =>
                msgs[p].destroys = 0 /\ msgs[p].st = "live" /\ msgs[p].native = msgs[p].sent)
        /\ (msgs[p].result.tag = "Err" => msgs[p].destroys = 1)
        /\ (views[p].st = "dropped" => msgs[p].destroys = 1 /\ msgs[p].st = "released")
        /\ (msgs[p].result.tag = "Ok" => views[p].st \in {"alive", "dropped"})

\* One consumer message was released on the error path and another by the drop
\* of its view.
C5_Witness ==
    \E p, q \in MsgIds :
        /\ msgs[p].prov = "consumer" /\ msgs[p].result.tag = "Err" /\ msgs[p].destroys = 1
        /\ msgs[q].prov = "consumer" /\ views[q].st = "dropped" /\ msgs[q].destroys = 1

\* C7: a view that is alive was produced by a component that still exists: the
\* consumer it was polled from is alive, or the delivery callback invocation
\* that received it has not returned.
C7_ViewNeverOutlivesProducer ==
    \A v \in MsgIds : views[v].st = "alive" =>
        LET p == views[v].ptr
        IN  /\ (msgs[p].prov = "consumer" => consumers[msgs[p].from] = "alive")
            /\ (msgs[p].prov = "dr" => msgs[p].cbActive)

\* A consumer is gone after a view polled from it was dropped, and a delivery
\* callback has returned after its view was given up.
C7_Witness ==
    \E v, w \in MsgIds :
        /\ views[v].st = "dropped"
        /\ msgs[views[v].ptr].prov = "consumer"
        /\ consumers[msgs[views[v].ptr].from] = "gone"
        /\ views[w].st \in {"dropped", "forgotten"}
        /\ msgs[views[w].ptr].prov = "dr"
        /\ ~msgs[views[w].ptr].cbActive

\* C9: from_dr_callback always produces a view of the reported message, and
\* its result is Ok exactly when the message carries no error and
\* Err(MessageProduction(code)) exactly when it carries the error code.
C9_DrCallbackAlwaysYieldsView ==
    \A p \in MsgIds : msgs[p].prov = "dr" =>
        /\ views[p].st # "none"
        /\ views[p].ptr = p
        /\ (msgs[p].result.tag = "Ok" <=> msgs[p].sent.err = "NO_ERROR")
        /\ (msgs[p].result.tag = "Err" <=> msgs[p].sent.err # "NO_ERROR")
        /\ (msgs[p].sent.err # "NO_ERROR" =>
                msgs[p].result.error =
                    [kind |-> "MessageProduction", partition |-> 0, code |-> msgs[p].sent.err])

\* A failed and a successful delivery report have both been wrapped.
C9_Witness ==
    \E p, q \in MsgIds :
        /\ msgs[p].prov = "dr" /\ msgs[p].sent.err = "TIMED_OUT"
        /\ msgs[p].result.tag = "Err" /\ views[p].st = "alive"
        /\ msgs[q].prov = "dr" /\ msgs[q].sent.err = "NO_ERROR"
        /\ msgs[q].result.tag = "Ok" /\ views[q].st = "alive"

\* C8: an OwnedMessage returned by detach has the key, payload, topic,
\* partition, offset and timestamp the view's accessors gave when detach was
\* called, also after the view is gone and the buffer released.
C8_DetachPreservesContent ==
    \A p \in MsgIds : owned[p] # NoOwned =>
        LET o == owned[p][1]
            n == msgs[p].sent
        IN  /\ OwnedKey(o) = Key(n)
            /\ OwnedPayload(o) = Payload(n)
            /\ OwnedTopic(o) = Topic(n)
            /\ OwnedPartition(o) = Partition(n)
            /\ OwnedOffset(o) = Offset(n)
            /\ OwnedTimestamp(o) = MessageTimestamp(n)

\* A message with a key and a payload was detached, its view dropped and its
\* buffer released.
C8_Witness ==
    \E p \in MsgIds :
        /\ owned[p] # NoOwned
        /\ owned[p][1].key = Some(<<7>>)
        /\ owned[p][1].payload = Some(<<3, 4>>)
        /\ views[p].st = "dropped"
        /\ msgs[p].st = "released"
        /\ msgs[p].native = Poison

\* C10 as stated: to_millis of CreateTime(t) and LogAppendTime(t) is None for
\* every t < 0.
C10_NegativeIsUnavailable ==
    (tsPc = "done" /\ tsIn.tag # "NotAvailable" /\ tsIn.ms < 0) => tsOut = None

\* C10 as amended: to_millis of CreateTime(t) and LogAppendTime(t) is None for
\* t = -1, and Some(t) for every other t < 0.
C10_MinusOneIsUnavailable ==
    (tsPc = "done" /\ tsIn.tag # "NotAvailable" /\ tsIn.ms < 0) =>
        tsOut = IF tsIn.ms = -1 THEN <<>> ELSE <<tsIn.ms>>

\* to_millis has been applied to LogAppendTime(-1).
C10_Witness ==
    tsPc = "done" /\ tsIn = [tag |-> "LogAppendTime", ms |-> -1] /\ tsOut = <<>>

\* C11: to_millis gives None for NotAvailable, CreateTime(-1) and
\* LogAppendTime(-1) and Some(t) for CreateTime(t) and LogAppendTime(t) with
\* t >= 0; an i64 t converted into a Timestamp is CreateTime(t).
C11_ConversionTable ==
    /\ tsPc = "done" =>
        /\ tsIn.tag = "NotAvailable" => tsOut = <<>>
        /\ (tsIn.tag \in {"CreateTime", "LogAppendTime"} /\ tsIn.ms = -1) => tsOut = <<>>
        /\ (tsIn.tag \in {"CreateTime", "LogAppendTime"} /\ tsIn.ms >= 0) =>
                tsOut = <<tsIn.ms>>
    /\ tsArg # <<>> => tsIn = [tag |-> "CreateTime", ms |-> tsArg[1]]

\* An i64 of 0 was converted into a Timestamp and to_millis applied to it.
C11_Witness ==
    tsPc = "done" /\ tsArg = <<0>> /\ tsIn.tag = "CreateTime" /\ tsOut = <<0>>

\* C12: when rd_kafka_new returns no handle, Client::new returns
\* Err(ClientCreation(text)) with text the diagnostic the engine wrote into
\* the 1024-byte buffer (the engine's diagnostic, cut to what the buffer
\* holds); no Client and no NativeClient exist for the attempt, no handle was
\* made for it and rd_kafka_destroy has been called only for other clients.
C12_FailedNewReturnsDiagnostic ==
    \A i \in Attempts : clients[i].st = "failed" =>
        /\ newResult[i].tag = "Err"
        /\ newResult[i].error.kind = "ClientCreation"
        /\ newResult[i].error.text =
              IF Len(newDiag[i]) < ErrstrLen THEN newDiag[i]
              ELSE SubSeq(newDiag[i], 1, ErrstrLen - 1)
        /\ clients[i].native = NullPtr
        /\ \A h \in Attempts : handles[h].st # "none" =>
              \E j \in Attempts : j # i /\ clients[j].native = h
        /\ \A h \in Attempts : handles[h].destroys > 0 =>
              \E j \in Attempts :
                  j # i /\ clients[j].native = h /\ clients[j].st \in {"dropping", "gone"}

\* A Client::new failed with a two-byte diagnostic while another client was
\* built and destroyed.
C12_Witness ==
    \E i, j \in Attempts :
        /\ clients[i].st = "failed"
        /\ newDiag[i] = <<70, 97>>
        /\ newResult[i].error.text = <<70, 97>>
        /\ clients[j].st = "gone"
        /\ handles[clients[j].native].destroys = 1

\* C13: whenever a native handle exists, from the return of rd_kafka_new on,
\* the log, statistics and error callbacks are registered on it and its
\* opaque is the address of the Context box of the Client being built or
\* built from it.
C13_CallbacksRegisteredBeforeHandle ==
    \A h \in Attempts : handles[h].st \in {"live", "destroying"} =>
        /\ registered[h] = {"log", "stats", "error"}
        /\ handles[h].opaque # NullPtr
        /\ \E i \in Attempts :
              /\ clients[i].st \in {"constructing", "alive", "dropping"}
              /\ clients[i].native = h
              /\ clients[i].context = handles[h].opaque
              /\ ctxs[clients[i].context].st = "boxed"

\* The engine runs a callback on a handle whose Client::new has not returned.
C13_Witness ==
    \E t \in Threads, i \in Attempts :
        /\ clients[i].st = "constructing"
        /\ cbs[t].st = "running"
        /\ cbs[t].h = clients[i].native
        /\ cbs[t].ctx = clients[i].context

\* The positions in the log of the calls of an engine function.
CallsOf(fn) == {k \in 1..Len(fetchLog) : fetchLog[k].fn = fn}

\* C14: fetch_metadata passes flag 0 with a handle of the named topic when a
\* topic name is given, and flag 1 with a null topic when none is given; an
\* error code from the engine gives Err(MetadataFetch(code)) and no Metadata,
\* anything else gives the Metadata wrapping the structure the engine returned.
C14_MetadataFlagHandleAndResult ==
    fetchIn.fn = "fetch_metadata" =>
        /\ (fetchIn.arg # <<>> /\ ~HasNul(fetchIn.arg[1])) =>
              \E k \in CallsOf("rd_kafka_metadata") :
                  /\ fetchLog[k].flag = 0
                  /\ fetchLog[k].ptr # NullPtr
                  /\ topics[fetchLog[k].ptr].name = fetchIn.arg[1]
        /\ fetchIn.arg = <<>> =>
              \E k \in CallsOf("rd_kafka_metadata") :
                  fetchLog[k].flag = 1 /\ fetchLog[k].ptr = NullPtr
        /\ \A k \in CallsOf("rd_kafka_metadata") :
              IF fetchLog[k].ret # "NO_ERROR"
              THEN /\ fetchOut.tag = "Err"
                   /\ fetchOut.error = [kind |-> "MetadataFetch", partition |-> 0,
                                        code |-> fetchLog[k].ret]
                   /\ fetchOut.value.kind = ""
              ELSE /\ fetchOut.tag = "Ok"
                   /\ fetchOut.value.kind = "Metadata"
                   /\ <<fetchOut.value.ptr>> = fetchLog[k].out

\* C15: fetch_watermarks returns Ok((low, high)) only when the engine
\* reported no error, with the values the engine stored; when the engine
\* reports an error the result is an error carrying its code, and (-1, -1)
\* is never returned as a success.
C15_WatermarksOnlyOnSuccess ==
    fetchIn.fn = "fetch_watermarks" =>
        /\ fetchOut.tag = "Ok" =>
              /\ Len(fetchLog) = 1
              /\ fetchLog[1].fn = "rd_kafka_query_watermark_offsets"
              /\ fetchLog[1].ret = "NO_ERROR"
              /\ fetchLog[1].out = <<fetchOut.value.pair>>
              /\ fetchOut.value.pair # <<-1, -1>>
        /\ \A k \in 1..Len(fetchLog) : fetchLog[k].ret # "NO_ERROR" =>
              /\ fetchOut.tag = "Err"
              /\ fetchOut.error.code = fetchLog[k].ret
              /\ fetchOut.value.kind = ""

\* fetch_watermarks returned the offsets the engine stored.
C15_Witness ==
    /\ fetchIn.fn = "fetch_watermarks"
    /\ fetchOut.tag = "Ok"
    /\ fetchOut.value.pair = <<2, 5>>
    /\ fetchLog[1].ret = "NO_ERROR"

\* The result of fetch_group_list for the engine's answer: an error code
\* gives Err(GroupListFetch(code)) and no GroupList.
GroupListResultMatches ==
    \A k \in CallsOf("rd_kafka_list_groups") :
        IF fetchLog[k].ret # "NO_ERROR"
        THEN /\ fetchOut.tag = "Err"
             /\ fetchOut.error = [kind |-> "GroupListFetch", partition |-> 0,
                                  code |-> fetchLog[k].ret]
             /\ fetchOut.value.kind = ""
        ELSE /\ fetchOut.tag = "Ok"
             /\ fetchOut.value.kind = "GroupList"

\* C16 as stated: fetch_group_list asks for all groups (a null group pointer)
\* when the name is empty or absent, and for the named group otherwise.
C16_EmptyOrAbsentAsksAll ==
    (fetchIn.fn = "fetch_group_list" /\ Len(fetchLog) = 1) =>
        /\ fetchLog[1].str = IF fetchIn.arg = <<>> \/ fetchIn.arg = << <<>> >>
                             THEN <<>> ELSE fetchIn.arg
        /\ GroupListResultMatches

\* C16 as amended: fetch_group_list asks for all groups (a null group
\* pointer) only when the name is absent, and for the named group whenever a
\* name is given, the empty name included.
C16_AbsentAsksAll ==
    (fetchIn.fn = "fetch_group_list" /\ Len(fetchLog) = 1) =>
        /\ fetchIn.arg = <<>> => fetchLog[1].str = <<>>
        /\ fetchIn.arg # <<>> => fetchLog[1].str = <<fetchIn.arg[1]>>
        /\ GroupListResultMatches

\* fetch_group_list was called with Some("") and the engine was asked for
\* the group of that name.
C16_Witness ==
    /\ fetchIn = [fn |-> "fetch_group_list", arg |-> << <<>> >>]
    /\ Len(fetchLog) = 1
    /\ fetchLog[1].str = << <<>> >>
    /\ fetchOut.tag = "Ok"

\* C18: for a statistics payload that fails to parse, native_stats_cb makes
\* no call of Context::stats, logs once at error level, does not panic,
\* returns 0 and leaves the Context allocated; once such a payload has been
\* handled the Client, its handle and its Context are as before, every later
\* statistics payload that parses is dispatched to Context::stats, every later
\* log and error callback dispatches too, and queries run.
C18_BadStatsIsSwallowed ==
    /\ \A t \in Threads : (tram[t].kind = "stats" /\ tram[t].parse = "Err") =>
          /\ tram[t].calls = <<>>
          /\ tram[t].errLogs = 1
          /\ tram[t].exit \in {"running", "returned"}
          /\ tram[t].exit = "returned" => tram[t].ret = <<0>>
          /\ \A c \in Attempts : ctxs[c].frees = 0
    /\ badStats =>
          /\ clients[1].st = "alive"
          /\ handles[clients[1].native].st = "live"
          /\ ctxs[clients[1].context].st = "boxed"
          /\ ~observedFreed
          /\ \A t \in Threads : (tram[t].afterBad /\ tram[t].exit = "returned") =>
                /\ tram[t].kind = "stats" => tram[t].ret = <<0>>
                /\ (tram[t].kind # "stats" \/ tram[t].parse = "Ok") =>
                      /\ Len(tram[t].calls) = 1
                      /\ tram[t].calls[1].method = tram[t].kind
          /\ fetchOut.tag \in {"none", "Ok", "Err"}

\* After a payload that failed to parse was handled, a payload that parses
\* was dispatched to Context::stats and a query returned offsets.
C18_Witness ==
    /\ badStats
    /\ \E t \in Threads :
          /\ tram[t].afterBad
          /\ tram[t].kind = "stats"
          /\ tram[t].parse = "Ok"
          /\ tram[t].exit = "returned"
          /\ Len(tram[t].calls) = 1
    /\ fetchOut.tag = "Ok"

\* C19: every invocation of native_error_cb, whatever integer the engine
\* passes as the error code, makes exactly one call of Context::error, with
\* Global(code) and the trimmed reason, and then returns normally.
C19_EveryErrorIsDelivered ==
    \A t \in Threads : tram[t].kind = "error" =>
        /\ tram[t].exit \in {"running", "returned"}
        /\ Len(tram[t].calls) = 1
        /\ tram[t].calls[1].method = "error"
        /\ tram[t].calls[1].error.kind = "Global"
        /\ <<tram[t].calls[1].error.code>> = PrimitiveToRespErr(tram[t].err)
        /\ tram[t].calls[1].text = Trim(tram[t].text)

\* C20: over any sequence of Client::new, native_client, native_ptr,
\* NativeClient::from_ptr, NativeClient::ptr and drop, a native client pointer
\* is held by at most one NativeClient at a time, and no handle is destroyed
\* more than once.
C20_OneWrapperPerHandle ==
    \A h \in Attempts :
        /\ Cardinality({i \in Attempts : clients[i].st = "alive" /\ clients[i].native = h})
             + Cardinality({w \in WrapperIds : wrappers[w].st = "alive" /\ wrappers[w].ptr = h})
             <= 1
        /\ handles[h].destroys <= 1

\* C21: in fetch_metadata with a topic name, rd_kafka_topic_destroy on the
\* handle made by native_topic comes only after the rd_kafka_metadata call
\* that received the handle, and the handle is destroyed exactly once by the
\* time fetch_metadata returns.
C21_TopicDestroyedAfterMetadata ==
    (fetchIn.fn = "fetch_metadata" /\ fetchOut.tag \in {"Ok", "Err"}) =>
        \A k \in CallsOf("rd_kafka_metadata") : fetchLog[k].ptr # NullPtr =>
            /\ topics[fetchLog[k].ptr].destroys = 1
            /\ \A d \in CallsOf("rd_kafka_topic_destroy") :
                  fetchLog[d].ptr = fetchLog[k].ptr => d > k

\* C22: rd_kafka_topic_destroy is called only on handles the engine created;
\* when rd_kafka_topic_new returns null no destroy call is made on the null
\* handle and the null handle is not passed to rd_kafka_metadata with flag 0.
C22_DestroyOnlyCreatedHandles ==
    /\ nullDestroys = 0
    /\ \A d \in CallsOf("rd_kafka_topic_destroy") : fetchLog[d].ptr # NullPtr
    /\ \A k \in CallsOf("rd_kafka_metadata") :
          fetchLog[k].flag = 0 => fetchLog[k].ptr # NullPtr

C24_ContextSurvivesPanic ==
    /\ \A c \in Attempts : ctxs[c].freedBy # "trampoline" /\ ctxs[c].frees <= 1
    /\ ~observedFreed

\* C25: with several Clients alive, every trampoline invocation the engine
\* makes for a client's handle dispatches to the Context that client owns,
\* for the log trampoline (rd_kafka_opaque) as for the stats and error
\* trampolines (opaque argument), and to no other client's Context.
C25_DispatchToOwnContext ==
    \A t \in Threads : cbs[t].st = "running" =>
        /\ \E i \in Attempts :
              /\ clients[i].st \in {"alive", "dropping"}
              /\ clients[i].native = cbs[t].h
              /\ clients[i].context = cbs[t].ctx
        /\ \A j \in Attempts :
              (clients[j].st # "none" /\ clients[j].native # cbs[t].h) =>
                  clients[j].context # cbs[t].ctx

\* Two Clients are alive and a log trampoline of one runs while a stats
\* trampoline of the other runs, each on its own Context.
C25_Witness ==
    /\ \A i \in {1, 2} : clients[i].st = "alive"
    /\ \E t, u \in Threads :
          /\ cbs[t].st = "running" /\ cbs[t].kind = "log"
          /\ cbs[u].st = "running" /\ cbs[u].kind = "stats"
          /\ cbs[t].h = clients[1].native /\ cbs[t].ctx = clients[1].context
          /\ cbs[u].h = clients[2].native /\ cbs[u].ctx = clients[2].context
          /\ cbs[t].ctx # cbs[u].ctx

\* C26: when Client::new fails, the Context passed to it is released exactly
\* once, by Client::new itself, and afterwards no trampoline runs with that
\* Context's address and no handle of the engine holds it as its opaque.
C26_FailedNewReleasesContextOnce ==
    \A i \in Attempts : clients[i].st = "failed" =>
        /\ newResult[i].tag = "Err"
        /\ ctxs[i].st = "freed"
        /\ ctxs[i].frees = 1
        /\ ctxs[i].freedBy = "new"
        /\ ctxs[i].aliases = 0
        /\ \A t \in Threads : cbs[t].st = "running" => cbs[t].ctx # i
        /\ \A h \in Attempts : handles[h].st # "none" => handles[h].opaque # i
        /\ ~observedFreed

\* A construction failed and released its Context, and afterwards a second
\* construction succeeded and one of its trampolines is running.
C26_Witness ==
    /\ clients[1].st = "failed"
    /\ ctxs[1].frees = 1
    /\ clients[2].st = "alive"
    /\ \E t \in Threads : cbs[t].st = "running" /\ cbs[t].ctx = 2

\* The engine query that an operation of the Client makes.
QueryOf(fn) ==
    IF fn = "fetch_metadata" THEN "rd_kafka_metadata"
    ELSE IF fn = "fetch_watermarks" THEN "rd_kafka_query_watermark_offsets"
    ELSE "rd_kafka_list_groups"

Queries == {"rd_kafka_metadata", "rd_kafka_query_watermark_offsets", "rd_kafka_list_groups"}

\* C27: no query operation retries: a call of fetch_metadata,
\* fetch_watermarks or fetch_group_list makes at most one call of its engine
\* query and none of the other queries, whether the call succeeds or fails,
\* and leaves the Client, its handle and its Context as they were.
C27_NoQueryRetries ==
    /\ fetchIn.fn # "" =>
          /\ Cardinality(CallsOf(QueryOf(fetchIn.fn))) <= 1
          /\ \A q \in Queries \ {QueryOf(fetchIn.fn)} : CallsOf(q) = {}
          /\ fetchOut.tag = "Err" =>
                \A k \in CallsOf(QueryOf(fetchIn.fn)) : fetchLog[k].ret = fetchOut.error.code
    /\ clients[1] = [st |-> "alive", native |-> 1, context |-> 1, k |-> 0]
    /\ handles[1] = [st |-> "live", opaque |-> 1, destroys |-> 0]
    /\ ctxs[1].st = "boxed" /\ ctxs[1].frees = 0

\* The engine failed a group list query, fetch_group_list returned that
\* error, and the query was made once.
C27_Witness ==
    /\ fetchIn.fn = "fetch_group_list"
    /\ fetchOut.tag = "Err"
    /\ fetchOut.error.kind = "GroupListFetch"
    /\ Cardinality(CallsOf("rd_kafka_list_groups")) = 1
    /\ fetchN = 2

\* C28: a topic or group name with an interior NUL byte makes fetch_metadata,
\* fetch_watermarks and fetch_group_list return an error before any engine
\* call: no query is issued, no topic handle is created and none destroyed.
C28_NulNameFailsBeforeEngine ==
    (fetchIn.arg # <<>> /\ \E k \in 1..Len(fetchIn.arg[1]) : fetchIn.arg[1][k] = 0) =>
        /\ fetchOut.tag = "Err"
        /\ fetchOut.value.kind = ""
        /\ fetchLog = <<>>
        /\ \A p \in TopicIds : topics[p].st # "none" => topics[p].name # fetchIn.arg[1]

\* After an earlier operation, fetch_metadata was called with "o\0p" and
\* returned an error without a call of the engine.
C28_Witness ==
    /\ fetchIn = [fn |-> "fetch_metadata", arg |-> << <<111, 0, 112>> >>]
    /\ fetchOut.tag = "Err"
    /\ fetchLog = <<>>
    /\ fetchN = 2
    /\ topics[1].st = "destroyed"

\* C29: BorrowedMessage::timestamp is NotAvailable whenever the engine
\* reports the value -1 or the type not-available, and otherwise
\* CreateTime(t) or LogAppendTime(t) by the engine's type, with t the
\* engine's value; it is never CreateTime(-1) or LogAppendTime(-1), and
\* to_millis of it is None exactly when it is NotAvailable.
C29_TimestampOfMessage ==
    \A p \in MsgIds : owned[p] # NoOwned =>
        LET ts == owned[p][1].timestamp
            n == msgs[views[p].ptr].sent
        IN  /\ IF n.tsVal = -1 \/ n.tsType = "NOT_AVAILABLE"
               THEN ts = [tag |-> "NotAvailable", ms |-> 0]
               ELSE /\ ts.ms = n.tsVal
                    /\ n.tsType = "CREATE_TIME" => ts.tag = "CreateTime"
                    /\ n.tsType = "LOG_APPEND_TIME" => ts.tag = "LogAppendTime"
            /\ ~(ts.tag \in {"CreateTime", "LogAppendTime"} /\ ts.ms = -1)
            /\ (ToMillis(ts) = <<>>) <=> (ts.tag = "NotAvailable")
            /\ ts.tag # "NotAvailable" => ToMillis(ts) = <<n.tsVal>>

\* The engine reported the value -1 with the type create-time, and the
\* timestamp read from the message is NotAvailable.
C29_Witness ==
    \E p \in MsgIds :
        /\ owned[p] # NoOwned
        /\ msgs[views[p].ptr].sent.tsVal = -1
        /\ msgs[views[p].ptr].sent.tsType = "CREATE_TIME"
        /\ owned[p][1].timestamp.tag = "NotAvailable"

\* The bytes behind a pointer/length pair, when the pointer is not null.
FieldBytes(f) == [k \in 1..f.len |-> f.mem[k]]

\* C30: key and payload are None exactly when the native pointer of the
\* field is null, and otherwise the bytes of exactly the native length (the
\* empty slice for length 0); detach keeps that, does not release the native
\* buffer, and gives equal results however often it is called on a view.
C30_KeyPayloadPresence ==
    \A p \in MsgIds : (owned[p] # NoOwned /\ views[p].st = "alive") =>
        LET o == owned[p][1]
            m == msgs[views[p].ptr]
            n == m.native
        IN  /\ (o.key = <<>>) <=> n.key.null
            /\ ~n.key.null => o.key = <<FieldBytes(n.key)>>
            /\ (o.payload = <<>>) <=> n.payload.null
            /\ ~n.payload.null => o.payload = <<FieldBytes(n.payload)>>
            /\ n = m.sent
            /\ m.destroys = 0
            /\ m.engineFrees = 0
            /\ m.st # "released"

\* A message with a present but empty key and no payload was detached, and
\* its view is still alive over the unreleased buffer.
C30_Witness ==
    \E p \in MsgIds :
        /\ owned[p] # NoOwned
        /\ views[p].st = "alive"
        /\ ~msgs[views[p].ptr].native.key.null
        /\ msgs[views[p].ptr].native.key.len = 0
        /\ owned[p][1].key = << <<>> >>
        /\ msgs[views[p].ptr].native.payload.null
        /\ owned[p][1].payload = <<>>

====
